---- MODULE Spec2Model ----
(***************************************************************************)
(* The vehicle catalogue view of azim7g/lesta-games-task.                  *)
(*                                                                         *)
(* The repository holds two versions of the one component App:            *)
(*   "derived": src/src/App.tsx      (option lists built by generateEnums) *)
(*   "fixed"  : src/unnamed/part_000 (tiers 1..10, inline nation/type      *)
(*                                    option lists)                        *)
(* A behaviour mounts one of them, lets the query settle, and then lets    *)
(* the user pick options in the three Select controls.  Every action ends  *)
(* with the re-render React performs, so `view` is always the output of    *)
(* the last render.                                                        *)
(*                                                                         *)
(* JavaScript values of type `string | undefined` are modelled as          *)
(* sequences of length at most one: <<>> is undefined, <<s>> is s.  The    *)
(* same encoding is used for an object that may be missing.                *)
(***************************************************************************)
EXTENDS Integers, Sequences, FiniteSets

VARIABLES variant, loading, error, data, tier, nation, type, view

vars == <<variant, loading, error, data, tier, nation, type, view>>

-----------------------------------------------------------------------------
(* Bounds and input domains *)

\* Longest vehicle list the query returns in the model.
MaxShips == 2

\* `[...Array(10)]`: the number of tier options of the fixed version.
TierCount == 10

Variants == {"derived", "fixed"}

Undefined == <<>>

USA == <<[title |-> "USA"]>>
USSR == <<[title |-> "USSR"]>>
Cruiser == <<[title |-> "Cruiser"]>>
Destroyer == <<[title |-> "Destroyer"]>>

\* Records with every field present and a non-empty title; the first two
\* are the records of the specification's scenario.
RegularVehicles ==
  {[level |-> 5, nation |-> USSR, type |-> Cruiser],
   [level |-> 5, nation |-> USA, type |-> Destroyer],
   [level |-> 5, nation |-> USA, type |-> Cruiser],
   [level |-> 10, nation |-> USA, type |-> Cruiser],
   [level |-> 10, nation |-> USSR, type |-> Destroyer]}

\* Records the query may also return: a missing nation object, a missing
\* type object, an empty nation title, and a type title that spells the
\* value the Select controls use for their "all" item.
OddVehicles ==
  {[level |-> 2, nation |-> Undefined, type |-> Cruiser],
   [level |-> 2, nation |-> USA, type |-> Undefined],
   [level |-> 2, nation |-> <<[title |-> ""]>>, type |-> Destroyer],
   [level |-> 2, nation |-> USSR, type |-> <<[title |-> "none"]>>]}

IVehicle == RegularVehicles \cup OddVehicles

SeqsUpTo(S, n) == UNION {[1..k -> S] : k \in 0..n}

VehicleLists == SeqsUpTo(IVehicle, MaxShips)

-----------------------------------------------------------------------------
(* JavaScript primitives used by the component *)

DigitChar(d) ==
  CASE d = 0 -> "0" [] d = 1 -> "1" [] d = 2 -> "2" [] d = 3 -> "3"
    [] d = 4 -> "4" [] d = 5 -> "5" [] d = 6 -> "6" [] d = 7 -> "7"
    [] d = 8 -> "8" [] d = 9 -> "9"

RECURSIVE Digits(_)
\* The decimal digits of a non-negative integer, most significant first.
Digits(n) == IF n < 10 THEN <<n>> ELSE Append(Digits(n \div 10), n % 10)

RECURSIVE JoinDigits(_)
JoinDigits(ds) ==
  IF ds = <<>> THEN "" ELSE DigitChar(Head(ds)) \o JoinDigits(Tail(ds))

\* Number.prototype.toString() on a non-negative integer.
toString(n) == JoinDigits(Digits(n))

RECURSIVE LexLess(_, _)
\* s < t on strings of digits, compared code unit by code unit.
LexLess(a, b) ==
  IF a = <<>> THEN b # <<>>
  ELSE IF b = <<>> THEN FALSE
  ELSE IF Head(a) # Head(b) THEN Head(a) < Head(b)
  ELSE LexLess(Tail(a), Tail(b))

\* The comparison Array.prototype.sort() uses when it is given no compare
\* function: both elements are converted to strings.
SortCompare(x, y) == LexLess(Digits(x), Digits(y))

RECURSIVE Insert(_, _)
Insert(x, s) ==
  IF s = <<>> THEN <<x>>
  ELSE IF SortCompare(x, Head(s)) THEN <<x>> \o s
  ELSE <<Head(s)>> \o Insert(x, Tail(s))

RECURSIVE sort(_)
\* Array.prototype.sort() with no compare function.
sort(s) == IF s = <<>> THEN <<>> ELSE Insert(Head(s), sort(Tail(s)))

Contains(s, x) == \E i \in 1..Len(s) : s[i] = x

\* Faulty variant: the array is returned as it is, repeated values included.
ArrayFromSetKeepsAll(s) == s

RECURSIVE ArrayFromSet(_)
\* Array.from(new Set(s)) and [...new Set(s)]: the distinct values of s in
\* the order of their first occurrence.
ArrayFromSet(s) ==
  IF s = <<>> THEN <<>>
  ELSE LET init == ArrayFromSet(SubSeq(s, 1, Len(s) - 1))
           last == s[Len(s)]
       IN  IF Contains(init, last) THEN init ELSE Append(init, last)

\* Boolean(x) for x a string or undefined.
Boolean(x) == x # Undefined /\ x # <<"">>

\* !s for a string s.
Not(s) == s = ""

\* obj?.title
ChainTitle(obj) == IF obj = Undefined THEN Undefined ELSE <<obj[1].title>>

-----------------------------------------------------------------------------
(* The component *)

\* Faulty variant: the three conditions are joined by || instead of &&.
filteredShipsAnyCondition(ships, t, n, ty) ==
  LET Test(ship) ==
        \/ (Not(t) \/ <<toString(ship.level)>> = <<t>>)
        \/ (Not(n) \/ ChainTitle(ship.nation) = <<n>>)
        \/ (Not(ty) \/ ChainTitle(ship.type) = <<ty>>)
  IN  SelectSeq(ships, Test)

\* Faulty variant: an unset tier is compared like any other value.
filteredShipsTierAlwaysCompared(ships, t, n, ty) ==
  LET Test(ship) ==
        /\ <<toString(ship.level)>> = <<t>>
        /\ (Not(n) \/ ChainTitle(ship.nation) = <<n>>)
        /\ (Not(ty) \/ ChainTitle(ship.type) = <<ty>>)
  IN  SelectSeq(ships, Test)

\* Faulty variant: the level is compared with the tier string without toString(),
\* so that a number is never strictly equal to the string.
filteredShipsLevelNotConverted(ships, t, n, ty) ==
  LET Test(ship) ==
        /\ Not(t)
        /\ (Not(n) \/ ChainTitle(ship.nation) = <<n>>)
        /\ (Not(ty) \/ ChainTitle(ship.type) = <<ty>>)
  IN  SelectSeq(ships, Test)

\* ships.filter(...) with the three-condition predicate.  The left sides
\* are `string | undefined` values, the right side is always a string.
filteredShips(ships, t, n, ty) ==
  LET Test(ship) ==
        /\ (Not(t) \/ <<toString(ship.level)>> = <<t>>)
        /\ (Not(n) \/ ChainTitle(ship.nation) = <<n>>)
        /\ (Not(ty) \/ ChainTitle(ship.type) = <<ty>>)
  IN  SelectSeq(ships, Test)

\* data?.vehicles || []
shipsOf(d) == IF d = Undefined THEN <<>> ELSE d[1].vehicles

\* generateEnums of the derived version.  el.type.title and el.nation.title
\* are plain property reads: they throw a TypeError on a missing object.
generateEnums(vehicles) ==
  IF \E i \in 1..Len(vehicles) :
       vehicles[i].type = Undefined \/ vehicles[i].nation = Undefined
  THEN [throws |-> TRUE, levels |-> <<>>, types |-> <<>>, nations |-> <<>>]
  ELSE LET enums ==
             [levels  |-> [i \in 1..Len(vehicles) |-> vehicles[i].level],
              types   |-> [i \in 1..Len(vehicles) |-> vehicles[i].type[1].title],
              nations |-> [i \in 1..Len(vehicles) |-> vehicles[i].nation[1].title]]
       IN  [throws  |-> FALSE,
            levels  |-> sort(ArrayFromSet(enums.levels)),
            types   |-> ArrayFromSet(enums.types),
            nations |-> ArrayFromSet(enums.nations)]

\* [...Array(10)].map((_, i) => i + 1) of the fixed version.
FixedLevels == [i \in 1..TierCount |-> i]

\* [...new Set(ships.map((s) => s.nation?.title).filter(Boolean))]
InlineNations(ships) ==
  LET titles == [i \in 1..Len(ships) |-> ChainTitle(ships[i].nation)]
      options == ArrayFromSet(SelectSeq(titles, Boolean))
  IN  [k \in 1..Len(options) |-> options[k][1]]

\* [...new Set(ships.map((s) => s.type?.title).filter(Boolean))]
InlineTypes(ships) ==
  LET titles == [i \in 1..Len(ships) |-> ChainTitle(ships[i].type)]
      options == ArrayFromSet(SelectSeq(titles, Boolean))
  IN  [k \in 1..Len(options) |-> options[k][1]]

\* The card of the derived version reads ship.nation.color and
\* ship.nation.title without optional chaining.
CardThrows(ship) == ship.nation = Undefined

BlankView(kind) ==
  [kind |-> kind, controls |-> FALSE, levels |-> <<>>, tierValues |-> <<>>,
   nations |-> <<>>, types |-> <<>>, cards |-> <<>>, emptyMessage |-> FALSE]

\* <Skeleton className="h-64 w-full" />
SkeletonView == BlankView("loading")

\* <p className="text-red-500">Ошибка: {error.message}</p>
ErrorView == BlankView("error")

\* An exception thrown while rendering: nothing of the component is shown.
CrashView == BlankView("crash")

\* The JSX returned on the success path.
CatalogJSX(levels, nations, types, cards) ==
  [kind |-> "catalog", controls |-> TRUE, levels |-> levels,
   tierValues |-> [k \in 1..Len(levels) |-> toString(levels[k])],
   nations |-> nations,
   types |-> types, cards |-> cards, emptyMessage |-> Len(cards) = 0]

\* The success path of App, from `const ships` to the returned JSX.
CatalogView(var, d, t, n, ty) ==
  LET ships    == shipsOf(d)
      filtered == filteredShips(ships, t, n, ty)
  IN  IF var = "derived"
      THEN LET enums == generateEnums(ships)
           IN  IF enums.throws THEN CrashView
               ELSE IF \E i \in 1..Len(filtered) : CardThrows(filtered[i])
               THEN CrashView
               ELSE CatalogJSX(enums.levels, enums.nations, enums.types,
                               filtered)
      ELSE CatalogJSX(FixedLevels, InlineNations(ships), InlineTypes(ships),
                      filtered)

\* Faulty variant: the error is only shown when no data came with it.
RenderCatalogDespiteError(var, l, e, d, t, n, ty) ==
  IF l THEN SkeletonView
  ELSE IF e /\ d = Undefined THEN ErrorView
  ELSE CatalogView(var, d, t, n, ty)

\* One render of App.
Render(var, l, e, d, t, n, ty) ==
  IF l THEN SkeletonView
  ELSE IF e THEN ErrorView
  ELSE CatalogView(var, d, t, n, ty)

-----------------------------------------------------------------------------
(* State machine *)

\* Mount: useQuery starts loading, the three useState('') are unset.
Init ==
  /\ variant \in Variants
  /\ loading = TRUE
  /\ error = FALSE
  /\ data = Undefined
  /\ tier = ""
  /\ nation = ""
  /\ type = ""
  /\ view = Render(variant, TRUE, FALSE, Undefined, "", "", "")

\* The query settles with a vehicle list.
FetchSucceeds(L) ==
  /\ loading
  /\ loading' = FALSE
  /\ error' = FALSE
  /\ data' = <<[vehicles |-> L]>>
  /\ UNCHANGED <<variant, tier, nation, type>>
  /\ view' = Render(variant, loading', error', data', tier, nation, type)

\* The query settles with an error; a (partial) result may come with it.
FetchFails(d) ==
  /\ loading
  /\ loading' = FALSE
  /\ error' = TRUE
  /\ data' = d
  /\ UNCHANGED <<variant, tier, nation, type>>
  /\ view' = Render(variant, loading', error', data', tier, nation, type)

\* The values of the items of a Select: "none" and one per option.
Items(options) == {"none"} \cup {options[i] : i \in 1..Len(options)}

\* Faulty variant: choosing a tier also clears the nation filter.
SelectTierClearsNation(value) ==
  /\ view.controls
  /\ value \in Items(view.tierValues)
  /\ tier' = IF value = "none" THEN "" ELSE value
  /\ nation' = ""
  /\ UNCHANGED <<variant, loading, error, data, type>>
  /\ view' = Render(variant, loading, error, data, tier', nation', type)

\* onValueChange of the tier Select: setTier(value === 'none' ? '' : value)
SelectTier(value) ==
  /\ view.controls
  /\ value \in Items(view.tierValues)
  /\ tier' = IF value = "none" THEN "" ELSE value
  /\ UNCHANGED <<variant, loading, error, data, nation, type>>
  /\ view' = Render(variant, loading, error, data, tier', nation, type)

\* onValueChange of the nation Select.
SelectNation(value) ==
  /\ view.controls
  /\ value \in Items(view.nations)
  /\ nation' = IF value = "none" THEN "" ELSE value
  /\ UNCHANGED <<variant, loading, error, data, tier, type>>
  /\ view' = Render(variant, loading, error, data, tier, nation', type)

\* onValueChange of the type Select.
SelectType(value) ==
  /\ view.controls
  /\ value \in Items(view.types)
  /\ type' = IF value = "none" THEN "" ELSE value
  /\ UNCHANGED <<variant, loading, error, data, tier, nation>>
  /\ view' = Render(variant, loading, error, data, tier, nation, type')

TierValues == {"none"} \cup {toString(i) : i \in 1..TierCount}

TitleValues == {"none", "", "USA", "USSR", "Cruiser", "Destroyer"}

Next ==
  \/ \E L \in VehicleLists : FetchSucceeds(L)
  \/ \E d \in {Undefined} \cup {<<[vehicles |-> L]>> : L \in VehicleLists} :
       FetchFails(d)
  \/ \E value \in TierValues : SelectTier(value)
  \/ \E value \in TitleValues : SelectNation(value)
  \/ \E value \in TitleValues : SelectType(value)

Spec == Init /\ [][Next]_vars

-----------------------------------------------------------------------------
(* Vocabulary of the properties, written without the component's operators *)

Ships == shipsOf(data)

Unset == tier = "" /\ nation = "" /\ type = ""

Settled == ~loading /\ ~error

\* The decimal numerals of the levels 1..10.
Numeral ==
  <<"1", "2", "3", "4", "5", "6", "7", "8", "9", "10">>

\* The elements of s at the indices I, in the order of s.
AtIndices(s, I) ==
  LET Nth(k) == CHOOSE i \in I : Cardinality({j \in I : j < i}) = k - 1
  IN  [k \in 1..Cardinality(I) |-> s[Nth(k)]]

\* The members of the set S of integers in ascending order.
Ascending(S) ==
  LET Nth(k) == CHOOSE x \in S : Cardinality({y \in S : y < x}) = k - 1
  IN  [k \in 1..Cardinality(S) |-> Nth(k)]

NoRepeats(s) == \A i, j \in 1..Len(s) : s[i] = s[j] => i = j

HasNation(v) == v.nation # Undefined

HasType(v) == v.type # Undefined

\* The three conditions of the filter, for a vehicle v and a FilterState.
Passes(v, t, n, ty) ==
  /\ (t = "" \/ Numeral[v.level] = t)
  /\ (n = "" \/ (HasNation(v) /\ v.nation[1].title = n))
  /\ (ty = "" \/ (HasType(v) /\ v.type[1].title = ty))

\* The sub-list of L of the vehicles that pass.
Passing(L, t, n, ty) ==
  AtIndices(L, {i \in 1..Len(L) : Passes(L[i], t, n, ty)})

TierStates == {""} \cup {Numeral[i] : i \in 1..TierCount}

TitleStates == {"", "none", "USA", "USSR", "Cruiser", "Destroyer"}

\* The records of L that are the first to carry their non-empty title;
\* Title(v) is <<>> when v has no such object.
FirstTitles(L, Title(_)) ==
  LET kept == {i \in 1..Len(L) : Title(L[i]) # <<>> /\ Title(L[i]) # <<"">>}
      first == {i \in kept : \A j \in kept : j < i => Title(L[j]) # Title(L[i])}
  IN  AtIndices(L, first)

NationTitle(v) == IF HasNation(v) THEN <<v.nation[1].title>> ELSE <<>>

TypeTitle(v) == IF HasType(v) THEN <<v.type[1].title>> ELSE <<>>

Titles(L, Title(_)) == [k \in 1..Len(L) |-> Title(L[k])[1]]

-----------------------------------------------------------------------------
(* Claims *)

\* C1: for every vehicle list and every FilterState the filtered list is
\* exactly the sub-list, in the same order, of the vehicles for which all
\* three conditions hold; the rendered cards are that list.
C1_FilterIsExactSublist ==
  /\ filteredShips(Ships, tier, nation, type) = Passing(Ships, tier, nation, type)
  /\ view.kind = "catalog" => view.cards = Passing(Ships, tier, nation, type)
  /\ (~loading /\ Unset) =>
       \A t \in TierStates, n \in TitleStates, ty \in TitleStates :
         filteredShips(Ships, t, n, ty) = Passing(Ships, t, n, ty)

\* C1 witness: two level-5 records (USSR/Cruiser, USA/Destroyer); tier "5"
\* alone keeps both, tier "5" with nation "USA" keeps one, tier "7" none.
C1_Witness ==
  /\ Ships = <<[level |-> 5, nation |-> USSR, type |-> Cruiser],
               [level |-> 5, nation |-> USA, type |-> Destroyer]>>
  /\ tier = "5" /\ nation = "USA" /\ type = ""
  /\ view.kind = "catalog"
  /\ view.cards = <<Ships[2]>>
  /\ Len(filteredShips(Ships, "5", "", "")) = 2
  /\ Len(filteredShips(Ships, "7", "", "")) = 0

\* C2: in each version a fetched record without its nation (or type) object
\* never crashes the view; it is excluded while the nation (type) filter
\* is set and included while all filters are unset.
C2_MissingObjectNeverCrashes ==
  Settled =>
    /\ view.kind = "catalog"
    /\ \A i \in 1..Len(Ships) :
         /\ (~HasNation(Ships[i]) /\ nation # "") => ~Contains(view.cards, Ships[i])
         /\ (~HasType(Ships[i]) /\ type # "") => ~Contains(view.cards, Ships[i])
    /\ Unset => view.cards = Ships

\* C3: in the derived version the tier options are the distinct levels of
\* the list in ascending integer order.
C3_TiersAscendingAsIntegers ==
  (variant = "derived" /\ view.kind = "catalog") =>
    view.levels = Ascending({Ships[i].level : i \in 1..Len(Ships)})

\* C4: no derived option list repeats a value, every value of a derived
\* option list is the corresponding field of some record of the list, and
\* the fixed version offers exactly the tiers 1 through 10.
C4_OptionsDistinctAndFromData ==
  view.kind = "catalog" =>
    /\ NoRepeats(view.nations)
    /\ NoRepeats(view.types)
    /\ NoRepeats(view.levels)
    /\ NoRepeats(view.tierValues)
    /\ \A k \in 1..Len(view.nations) :
         \E i \in 1..Len(Ships) : NationTitle(Ships[i]) = <<view.nations[k]>>
    /\ \A k \in 1..Len(view.types) :
         \E i \in 1..Len(Ships) : TypeTitle(Ships[i]) = <<view.types[k]>>
    /\ variant = "derived" =>
         \A k \in 1..Len(view.levels) :
           \E i \in 1..Len(Ships) : Ships[i].level = view.levels[k]
    /\ variant = "fixed" => view.levels = <<1, 2, 3, 4, 5, 6, 7, 8, 9, 10>>

\* C4 witness: a derived option list built from a list in which a nation
\* title, a type title and a level each occur twice.
C4_Witness ==
  /\ variant = "derived"
  /\ view.kind = "catalog"
  /\ Len(Ships) = 2
  /\ Ships[1] = Ships[2]
  /\ Len(view.nations) = 1 /\ Len(view.types) = 1 /\ Len(view.levels) = 1

\* C5: in each version the nation and type option lists are the distinct
\* titles in first-occurrence order, and an empty or missing title is never
\* offered.
C5_TitlesFirstSeenNoFalsy ==
  view.kind = "catalog" =>
    /\ view.nations = Titles(FirstTitles(Ships, NationTitle), NationTitle)
    /\ view.types = Titles(FirstTitles(Ships, TypeTitle), TypeTitle)
    /\ ~Contains(view.nations, "")
    /\ ~Contains(view.types, "")

\* C6: with all three fields unset the filtered list is the whole list, and
\* filtering the filtered list again with the same FilterState changes
\* nothing.
C6_IdentityAndIdempotence ==
  /\ filteredShips(Ships, "", "", "") = Ships
  /\ (view.kind = "catalog" /\ Unset) => view.cards = Ships
  /\ filteredShips(filteredShips(Ships, tier, nation, type), tier, nation, type)
       = filteredShips(Ships, tier, nation, type)
  /\ view.kind = "catalog" =>
       filteredShips(view.cards, tier, nation, type) = view.cards

\* C6 witness: an unfiltered two-record catalogue of which some FilterState
\* keeps exactly one record.
C6_Witness ==
  /\ view.kind = "catalog"
  /\ Unset
  /\ Len(Ships) = 2
  /\ view.cards = Ships
  /\ Len(filteredShips(Ships, "10", "", "")) = 1

\* C7: the render takes exactly one of the three branches loading, error,
\* success; while loading only the placeholder is rendered, and on an error
\* only the error message: no card and no filter control, even when a
\* vehicle list came with the error.
C7_LoadingAndErrorHideCatalog ==
  /\ (view.kind = "loading") <=> loading
  /\ (view.kind = "error") <=> (~loading /\ error)
  /\ (view.kind \in {"catalog", "crash"}) <=> Settled
  /\ (loading \/ error) =>
       /\ view.cards = <<>>
       /\ ~view.controls
       /\ ~view.emptyMessage
       /\ view.levels = <<>> /\ view.nations = <<>> /\ view.types = <<>>

\* C7 witness: the query failed and a non-empty vehicle list came with the
\* error.
C7_Witness ==
  /\ ~loading /\ error
  /\ Len(Ships) > 0
  /\ view.kind = "error"

IsSentinel(value) == value = "none"

\* C8: every field starts unset; choosing the "all" item unsets the field;
\* choosing an option of the option list sets the field to exactly that
\* option's value; every field is always unset or one of the options its
\* control offers.
C8_ControlsAreStateMachines ==
  /\ Unset
  /\ [][/\ \A value \in TierValues :
             SelectTier(value) =>
               /\ IsSentinel(value) => tier' = ""
               /\ Contains(view.tierValues, value) => tier' = value
        /\ \A value \in TitleValues :
             SelectNation(value) =>
               /\ IsSentinel(value) => nation' = ""
               /\ Contains(view.nations, value) => nation' = value
        /\ \A value \in TitleValues :
             SelectType(value) =>
               /\ IsSentinel(value) => type' = ""
               /\ Contains(view.types, value) => type' = value
        /\ view'.controls =>
             /\ tier' = "" \/ Contains(view'.tierValues, tier')
             /\ nation' = "" \/ Contains(view'.nations, nation')
             /\ type' = "" \/ Contains(view'.types, type')]_vars

\* C9: a selection changes only its own field: the other two fields, the
\* vehicle list and the fetch status stay as they are; and the rendered
\* cards are always the filter of the list by the current FilterState.
C9_SelectionFrame ==
  [][/\ (\E value \in TierValues : SelectTier(value)) =>
          UNCHANGED <<nation, type, data, loading, error, variant>>
     /\ (\E value \in TitleValues : SelectNation(value)) =>
          UNCHANGED <<tier, type, data, loading, error, variant>>
     /\ (\E value \in TitleValues : SelectType(value)) =>
          UNCHANGED <<tier, nation, data, loading, error, variant>>
     /\ <<tier, nation, type>>' # <<tier, nation, type>> =>
          /\ UNCHANGED <<data, loading, error, variant>>
          /\ Cardinality({f \in {"tier", "nation", "type"} :
                \/ f = "tier" /\ tier' # tier
                \/ f = "nation" /\ nation' # nation
                \/ f = "type" /\ type' # type}) = 1
     /\ view'.kind = "catalog" =>
          view'.cards = Passing(Ships', tier', nation', type')]_vars

\* C9 witness: all three fields have been set, one selection after the
\* other, and the cards are the one record of two that passes.
C9_Witness ==
  /\ view.kind = "catalog"
  /\ tier # "" /\ nation # "" /\ type # ""
  /\ Len(Ships) = 2
  /\ Len(view.cards) = 1

Chosen(value) == IF IsSentinel(value) THEN "" ELSE value

\* C10: in the derived version every offered option, chosen with the other
\* two fields unset, leaves at least one card and no "no ships match"
\* message; in the fixed version a tier no record has leaves no card and
\* shows the message.
C10_OfferedOptionsMatch ==
  /\ (variant = "derived" /\ view.kind = "catalog") =>
       /\ \A k \in 1..Len(view.tierValues) :
            Len(filteredShips(Ships, Chosen(view.tierValues[k]), "", "")) > 0
       /\ \A k \in 1..Len(view.nations) :
            Len(filteredShips(Ships, "", Chosen(view.nations[k]), "")) > 0
       /\ \A k \in 1..Len(view.types) :
            Len(filteredShips(Ships, "", "", Chosen(view.types[k]))) > 0
       /\ Cardinality({f \in {"tier", "nation", "type"} :
             \/ f = "tier" /\ tier # ""
             \/ f = "nation" /\ nation # ""
             \/ f = "type" /\ type # ""}) = 1
            => Len(view.cards) > 0 /\ ~view.emptyMessage
  /\ (/\ variant = "fixed" /\ view.kind = "catalog"
      /\ tier # "" /\ nation = "" /\ type = ""
      /\ \A i \in 1..Len(Ships) : Numeral[Ships[i].level] # tier) =>
       view.cards = <<>> /\ view.emptyMessage

\* C10 witness: the derived version with the tier option "10" chosen, the
\* other fields unset, and a card shown.
C10_Witness ==
  /\ variant = "derived"
  /\ view.kind = "catalog"
  /\ tier = "10" /\ nation = "" /\ type = ""
  /\ Len(Ships) = 2
  /\ Len(view.cards) = 1
  /\ ~view.emptyMessage

====
